---- MODULE Spec2Model ----
(***************************************************************************)
(* Model of the CEP distance service: api_principal/app.py (orchestrator   *)
(* with its SQLite store) and api_secundaria/app.py (haversine delegate).  *)
(*                                                                         *)
(* Text is a tuple of one-character strings, so that strip(), split(",")  *)
(* and ", ".join() are computed and not assumed.  JSON values are tagged   *)
(* records.  Distances are integers in units of 1e-4 km, so that           *)
(* round(x, 3) is a real operation (rounding to a multiple of 10).         *)
(*                                                                         *)
(* A statement followed by db.commit() is one atomic step: SQLite holds    *)
(* the write lock from the statement to the commit.  Lock time-outs        *)
(* ("database is locked") are not modelled.                                *)
(***************************************************************************)
EXTENDS Integers, Sequences, FiniteSets, TLC

----------------------------------------------------------------------------
(* Bounds of the model *)

\* Requests started over a whole behaviour.
MaxReqs == 4

\* POST /distancia-por-cep runs started over a whole behaviour.
MaxPosts == 2

\* Slack around the LIMIT cap for the store sizes of the listing model.
ListSlack == 1

\* Length of the address components of the geocoding model.
MaxText == 2

\* Program constants.
MaxLimit == 200
MinLimit == 1

Procs == {"r1", "r2"}

----------------------------------------------------------------------------
(* Text *)

SP == " "
COMMA == ","

RECURSIVE lstrip(_)
lstrip(s) == IF s # <<>> /\ Head(s) = SP THEN lstrip(Tail(s)) ELSE s

RECURSIVE rstrip(_)
rstrip(s) ==
    IF s # <<>> /\ s[Len(s)] = SP THEN rstrip(SubSeq(s, 1, Len(s) - 1)) ELSE s

\* str.strip()
strip(s) == rstrip(lstrip(s))

\* str.replace(c, "")
RECURSIVE remove(_, _)
remove(s, c) ==
    IF s = <<>> THEN <<>>
    ELSE IF Head(s) = c THEN remove(Tail(s), c)
    ELSE <<Head(s)>> \o remove(Tail(s), c)

\* str.split(","): always at least one segment
RECURSIVE split(_)
split(s) ==
    IF s = <<>> THEN << <<>> >>
    ELSE LET rest == split(Tail(s)) IN
         IF Head(s) = COMMA THEN << <<>> >> \o rest
         ELSE << <<Head(s)>> \o Head(rest) >> \o Tail(rest)

\* ", ".join(parts)
RECURSIVE join(_)
join(parts) ==
    IF parts = <<>> THEN <<>>
    ELSE IF Len(parts) = 1 THEN Head(parts)
    ELSE Head(parts) \o <<COMMA, SP>> \o join(Tail(parts))

\* Mutant: parts[:3]
firstThree(parts) == IF Len(parts) <= 3 THEN parts ELSE SubSeq(parts, 1, 3)

\* parts[-3:]
lastThree(parts) ==
    IF Len(parts) <= 3 THEN parts ELSE SubSeq(parts, Len(parts) - 2, Len(parts))

RECURSIVE mapStrip(_)
mapStrip(parts) ==
    IF parts = <<>> THEN <<>> ELSE <<strip(Head(parts))>> \o mapStrip(Tail(parts))

\* Mutant: the components without the filter
todos(parts) == parts

\* [c for c in componentes if c]
RECURSIVE nonEmpty(_)
nonEmpty(parts) ==
    IF parts = <<>> THEN <<>>
    ELSE IF Head(parts) # <<>> THEN <<Head(parts)>> \o nonEmpty(Tail(parts))
    ELSE nonEmpty(Tail(parts))

----------------------------------------------------------------------------
(* JSON values *)

JNull == [tag |-> "null"]
JStr(s) == [tag |-> "str", s |-> s]

JNum(n) == [tag |-> "num", n |-> n]
JBool(b) == [tag |-> "bool", b |-> b]
JList == [tag |-> "list"]
JObj(d) == [tag |-> "obj", d |-> d]

\* dict.get(k, default): a body or an address is a function from keys to values
Get(d, k, default) == IF k \in DOMAIN d THEN d[k] ELSE default

\* str(v) for the values a postal code may carry
PyStr(v) == IF v.tag = "str" THEN v.s ELSE <<"N", "o", "n", "e">>

\* v or ""
OrEmpty(v) == IF v.tag = "str" THEN v.s ELSE <<>>

\* bool(v): what "v or {}" takes for false
Falsy(v) ==
    \/ v.tag = "null"
    \/ v.tag = "str" /\ v.s = <<>>
    \/ v.tag = "num" /\ v.n = 0
    \/ v.tag = "bool" /\ ~v.b
    \/ v.tag = "obj" /\ DOMAIN v.d = {}

Digits == <<"0", "1", "2", "3", "4", "5", "6", "7", "8", "9">>

DigitVal(c) == (CHOOSE i \in 1..10 : Digits[i] = c) - 1

IsDigits(s) == s # <<>> /\ \A i \in 1..Len(s) : \E j \in 1..10 : Digits[j] = s[i]

RECURSIVE Decimal(_)
Decimal(s) ==
    IF s = <<>> THEN 0
    ELSE 10 * Decimal(SubSeq(s, 1, Len(s) - 1)) + DigitVal(s[Len(s)])

\* float(text) for texts of blanks, a sign, digits and letters: the blanks
\* around are dropped, then an optional sign and digits are read.
ParseFloat(text) ==
    LET t == strip(text)
        signed == t # <<>> /\ Head(t) \in {"-", "+"}
        ds == IF signed THEN Tail(t) ELSE t
    IN  IF IsDigits(ds)
        THEN [ok |-> TRUE, v |-> IF signed /\ Head(t) = "-"
                                  THEN 0 - Decimal(ds) ELSE Decimal(ds)]
        ELSE [ok |-> FALSE, v |-> "ValueError"]

\* float(v) for a JSON value
PyFloat(v) ==
    CASE v.tag = "num" -> [ok |-> TRUE, v |-> v.n]
      [] v.tag = "bool" -> [ok |-> TRUE, v |-> IF v.b THEN 1 ELSE 0]
      [] v.tag = "str" -> ParseFloat(v.s)
      [] OTHER -> [ok |-> FALSE, v |-> "TypeError"]

----------------------------------------------------------------------------
(* Pure functions of the two services *)

\* Status of the response for an exception leaving distancia_por_cep's try
\* block.  requests' JSONDecodeError is a ValueError too and is caught first.
StatusOfException(e) ==
    IF e = "ValueError" THEN 400
    ELSE IF e = "RequestException" THEN 502
    ELSE 500

\* The postal code as via_cep puts it in the URL.
CepNaUrl(cep) == strip(remove(cep, "-"))

endereco_para_query(endereco) ==
    LET logradouro == OrEmpty(Get(endereco, "logradouro", JNull))
        bairro == OrEmpty(Get(endereco, "bairro", JNull))
        localidade == OrEmpty(Get(endereco, "localidade", JNull))
        uf == OrEmpty(Get(endereco, "uf", JNull))
        componentes ==
            <<logradouro, bairro, localidade, uf, <<"B", "r", "a", "z", "i", "l">> >>
    IN  join(nonEmpty(componentes))

\* partes = [p.strip() for p in query.split(",")]
Partes(query) == mapStrip(split(query))

\* Mutant: the second attempt whatever the number of segments.
TemFallbackSempre(query) == TRUE

\* geocode_osm takes the second attempt only with at least three segments.
TemFallback(query) == Len(Partes(query)) >= 3

\* cidade_uf = ", ".join(partes[-3:])
CidadeUf(query) == join(lastThree(Partes(query)))

\* round(x, 3) on a distance in units of 1e-4 km (ties to even).
Round3(v) ==
    LET q == v \div 10
        r == v % 10
    IN  IF r < 5 THEN 10 * q
        ELSE IF r > 5 THEN 10 * (q + 1)
        ELSE IF q % 2 = 0 THEN 10 * q ELSE 10 * (q + 1)

Abs(x) == IF x < 0 THEN 0 - x ELSE x

\* sin(d/2)**2 in halves, for d a multiple of 90 degrees
Sin2Half(d) == IF Abs(d) % 360 = 0 THEN 0 ELSE IF Abs(d) % 360 = 180 THEN 2 ELSE 1

\* cos(lat) for lat a multiple of 90 degrees in [-90, 90]
Cos(lat) == IF lat = 0 THEN 1 ELSE 0

\* Mutant: cos(lat1) taken twice.
haversine_km_lat1(lat1, lon1, lat2, lon2) ==
    LET dlat == lat2 - lat1
        dlon == lon2 - lon1
        a == Sin2Half(dlat) + Cos(lat1) * Cos(lat1) * Sin2Half(dlon)
    IN  IF a = 0 THEN 0 ELSE IF a = 1 THEN 100075434 ELSE 200150868

\* Haversine on coordinates that are multiples of 90 degrees, in units of
\* 1e-4 km: a is kept in halves, R * 2 * asin(sqrt(a)) is R*pi/2 for a = 1/2
\* and R*pi for a = 1, with R = 6371.0.
haversine_km(lat1, lon1, lat2, lon2) ==
    LET dlat == lat2 - lat1
        dlon == lon2 - lon1
        a == Sin2Half(dlat) + Cos(lat1) * Cos(lat2) * Sin2Half(dlon)
    IN  IF a = 0 THEN 0 ELSE IF a = 1 THEN 100075434 ELSE 200150868

\* Mutant: the answer carries the distance at full precision.
calcular_distancia_sem_round(origem, destino) ==
    [origem |-> origem, destino |-> destino,
     distancia_km |-> haversine_km(origem[1], origem[2], destino[1], destino[2])]

\* The 200 answer of POST /calcular-distancia for numeric coordinates.
calcular_distancia(origem, destino) ==
    LET distancia == haversine_km(origem[1], origem[2], destino[1], destino[2])
    IN  [origem |-> origem, destino |-> destino, distancia_km |-> Round3(distancia)]

\* ORDER BY id DESC over the ids of the table that lie in lo..hi: the upper
\* half of the range before the lower half.
RECURSIVE OrderByIdDesc(_, _, _)
OrderByIdDesc(ids, lo, hi) ==
    IF lo > hi THEN <<>>
    ELSE IF lo = hi THEN (IF lo \in ids THEN <<lo>> ELSE <<>>)
    ELSE LET mid == (lo + hi) \div 2
         IN  OrderByIdDesc(ids, mid + 1, hi) \o OrderByIdDesc(ids, lo, mid)

Min2(a, b) == IF a < b THEN a ELSE b
Max2(a, b) == IF a > b THEN a ELSE b

\* Mutant: the limit without its cap.
ClampLimitSemTeto(limit) == Max2(MinLimit, limit)

\* limit = max(1, min(limit, 200))
ClampLimit(limit) == Max2(MinLimit, Min2(limit, MaxLimit))

\* offset = max(0, offset)
ClampOffset(offset) == Max2(0, offset)

\* LIMIT ? OFFSET ? on an ordered sequence
LimitOffset(rows, limit, offset) ==
    SubSeq(rows, offset + 1, Min2(Len(rows), offset + limit))

----------------------------------------------------------------------------
(* Inputs and answers of the environment *)

\* request.get_json(silent=True): None (no body, or not JSON) or a JSON object
NoJson == [t |-> "none"]
DictJson(d) == [t |-> "dict", d |-> d]

EmptyDict == [k \in {} |-> JNull]

CepA == <<SP, "1", "-", "0">>
CepB == <<"2">>

\* Bodies of POST /distancia-por-cep: no JSON, a blank origin, a missing
\* destination, a null origin, and a complete body with notes.
PostBodies ==
    { NoJson,
      DictJson([origem |-> JStr(<<SP>>), destino |-> JStr(CepB)]),
      DictJson([origem |-> JStr(CepA)]),
      DictJson([origem |-> JNull, destino |-> JStr(CepB)]),
      DictJson([origem |-> JStr(CepA), destino |-> JStr(CepB),
                observacoes |-> JStr(<<"x">>)]) }

\* Bodies of PUT /consultas/<id>: no JSON, an object without notes, and notes.
PutBodies ==
    { NoJson,
      DictJson([outra |-> JStr(<<"z">>)]),
      DictJson([observacoes |-> JStr(<<"y">>)]) }

\* The address ViaCEP holds for a postal code: a full one, or one with the
\* region only.
ViaCepData(cep) ==
    IF Len(cep) > 1
    THEN [logradouro |-> JStr(<<"s">>), bairro |-> JStr(<<"b">>),
          localidade |-> JStr(<<"c">>), uf |-> JStr(<<"u">>)]
    ELSE [logradouro |-> JStr(<<>>), localidade |-> JNull, uf |-> JStr(<<"u">>)]

\* ViaCEP knows only well-formed postal codes; for the others it answers with
\* an error status, or not at all.
ViaCepOutcomes(cep) ==
    IF \A i \in 1..Len(cep) : cep[i] \in {"0", "1", "2"}
    THEN {"ok", "erro", "http", "timeout"}
    ELSE {"http", "timeout"}

NominatimOutcomes == {"match", "nomatch", "http", "timeout"}

SecundariaOutcomes == {"ok", "http", "timeout", "notjson", "nokey"}

\* The best match Nominatim holds for a query, as (lat, lon) in degrees.
NominatimData(q) ==
    LET n == Len(split(q))
    IN  IF n > 3 THEN <<0, 90>> ELSE IF n = 3 THEN <<0, 0>> ELSE <<0, 180>>

Ids == 1..MaxPosts

Limits == {0, 9999}
Offsets == {0}

----------------------------------------------------------------------------
(* State *)

VARIABLES
    store,    \* table consultas: id -> row
    seq,      \* sqlite_sequence of the AUTOINCREMENT key: largest id ever given
    pc,       \* where each request worker stands
    req,      \* the request a worker serves
    loc,      \* the handler's local variables
    conn,     \* g.db of the request: the connection and its cursor's results
    resp,     \* the response of the request
    calls,    \* the external calls the request has issued, in order
    run,      \* history of the request: stages done, ids inserted
    deleted,  \* history: ids whose DELETE answered 200
    nreq,     \* requests started
    nposts    \* POST /distancia-por-cep runs started

vars == <<store, seq, pc, req, loc, conn, resp, calls, run, deleted, nreq, nposts>>

NoReq == [kind |-> "none", id |-> 0, limit |-> 0, offset |-> 0]

NoLoc ==
    [cep_origem |-> <<>>, cep_destino |-> <<>>, observacoes |-> JNull,
     end_origem |-> EmptyDict, end_destino |-> EmptyDict,
     q_origem |-> <<>>, q_destino |-> <<>>,
     c1 |-> <<>>, c2 |-> <<>>, distancia_km |-> 0, criado_em |-> 0]

NoConn == [open |-> FALSE, opens |-> 0, lastrowid |-> 0]

NoResp == [status |-> 0, body |-> [erro |-> ""]]

NoRun ==
    [stages |-> <<>>, ins |-> {}, late |-> FALSE, absent |-> FALSE,
     fault |-> "", missing |-> FALSE]

Init ==
    /\ store = [i \in {} |-> 0]
    /\ seq = 0
    /\ pc = [p \in Procs |-> "idle"]
    /\ req = [p \in Procs |-> NoReq]
    /\ loc = [p \in Procs |-> NoLoc]
    /\ conn = [p \in Procs |-> NoConn]
    /\ resp = [p \in Procs |-> NoResp]
    /\ calls = [p \in Procs |-> <<>>]
    /\ run = [p \in Procs |-> NoRun]
    /\ deleted = {}
    /\ nreq = 0
    /\ nposts = 0

----------------------------------------------------------------------------
(* Store handle *)

\* get_db: connect on first use in the request
get_db(c) ==
    IF c.open THEN c ELSE [c EXCEPT !.open = TRUE, !.opens = c.opens + 1]

\* Mutant: a teardown that leaves the connection as it is.
close_db_nada(c) == c

\* close_db, the teardown of the request
close_db(c) == [c EXCEPT !.open = FALSE]

\* Mutant: a key without AUTOINCREMENT, one above the largest id in the table.
NextIdSemAutoincrement(ids, s) ==
    IF ids = {} THEN 1 ELSE 1 + CHOOSE m \in ids : \A i \in ids : i <= m

\* The id an INSERT gives under AUTOINCREMENT: above every id ever given.
NextId(ids, s) == s + 1

\* Mutant: the id of the last INSERT of any connection.
LastRowIdGlobal(c, s) == s

\* cur.lastrowid: the id of the last INSERT of this connection
LastRowId(c, s) == c.lastrowid

\* The request ends with a response; the teardown closes the connection and
\* the worker is free for the next request.
Reply(p, c, status, body) ==
    /\ pc' = [pc EXCEPT ![p] = "idle"]
    /\ resp' = [resp EXCEPT ![p] = [status |-> status, body |-> body]]
    /\ conn' = [conn EXCEPT ![p] = close_db(c)]
    /\ loc' = [loc EXCEPT ![p] = NoLoc]

Erro == [erro |-> "erro"]

\* Mutant: the failure is noted and the call is tried again.
RaiseERepete(p, e, fault) ==
    /\ run' = [run EXCEPT ![p].fault = fault]
    /\ UNCHANGED <<pc, resp, conn, loc>>

\* An exception caught by the except clauses of distancia_por_cep; the history
\* keeps the answer of the environment that caused it.
Raise(p, e, fault) ==
    /\ Reply(p, conn[p], StatusOfException(e), Erro)
    /\ run' = [run EXCEPT ![p].fault = fault]

Stage(p, name) == run' = [run EXCEPT ![p].stages = Append(@, name)]

Call(p, svc, arg) == calls' = [calls EXCEPT ![p] = Append(@, [svc |-> svc, arg |-> arg])]

----------------------------------------------------------------------------
(* POST /distancia-por-cep *)

\* if not cep_origem or not cep_destino
Faltando(cep_origem, cep_destino) == cep_origem = <<>> \/ cep_destino = <<>>

\* History: the request carries no origin or no destination postal code (no
\* body, no key, null, or only blanks).
SemCep(json) ==
    \/ json.t = "none"
    \/ \E k \in {"origem", "destino"} :
          \/ k \notin DOMAIN json.d
          \/ json.d[k].tag = "null"
          \/ /\ json.d[k].tag = "str"
             /\ \A i \in 1..Len(json.d[k].s) : json.d[k].s[i] = SP

\* Entry of the handler: the body is read and validated.
PostValidar(p, json) ==
    /\ pc[p] = "idle"
    /\ nreq < MaxReqs
    /\ nposts < MaxPosts
    /\ nreq' = nreq + 1
    /\ nposts' = nposts + 1
    /\ req' = [req EXCEPT ![p] = [NoReq EXCEPT !.kind = "POST"]]
    /\ calls' = [calls EXCEPT ![p] = <<>>]
    /\ LET body == IF json.t = "none" THEN EmptyDict ELSE json.d
           cep_origem == strip(PyStr(Get(body, "origem", JStr(<<>>))))
           cep_destino == strip(PyStr(Get(body, "destino", JStr(<<>>))))
           observacoes == Get(body, "observacoes", JNull)
           history == [NoRun EXCEPT !.missing = SemCep(json)]
       IN  IF Faltando(cep_origem, cep_destino)
           THEN /\ Reply(p, NoConn, 400, Erro)
                /\ run' = [run EXCEPT ![p] = history]
           ELSE /\ loc' = [loc EXCEPT ![p].cep_origem = cep_origem,
                                      ![p].cep_destino = cep_destino,
                                      ![p].observacoes = observacoes]
                /\ pc' = [pc EXCEPT ![p] = "viacep_origem"]
                /\ run' = [run EXCEPT ![p] =
                             [history EXCEPT !.stages = <<"Validate">>]]
                /\ resp' = [resp EXCEPT ![p] = NoResp]
                /\ conn' = [conn EXCEPT ![p] = NoConn]
    /\ UNCHANGED <<store, seq, deleted>>

\* via_cep(cep_origem), then via_cep(cep_destino) and the two queries.
ViaCep(p) ==
    /\ pc[p] \in {"viacep_origem", "viacep_destino"}
    /\ LET origem == pc[p] = "viacep_origem"
           cep == CepNaUrl(IF origem THEN loc[p].cep_origem ELSE loc[p].cep_destino)
       IN  /\ Call(p, "viacep", cep)
           /\ \E out \in ViaCepOutcomes(cep) :
                CASE out = "ok" ->
                       LET data == ViaCepData(cep) IN
                          /\ loc' = IF origem
                                    THEN [loc EXCEPT ![p].end_origem = data]
                                    ELSE [loc EXCEPT
                                            ![p].end_destino = data,
                                            ![p].q_origem =
                                                endereco_para_query(loc[p].end_origem),
                                            ![p].q_destino = endereco_para_query(data)]
                          /\ pc' = [pc EXCEPT ![p] =
                                       IF origem THEN "viacep_destino" ELSE "geocode_origem"]
                          /\ run' = [run EXCEPT ![p].stages =
                                       IF origem THEN Append(@, "Resolve(origin)")
                                       ELSE @ \o <<"Resolve(destination)",
                                                   "BuildQuery(origin)",
                                                   "BuildQuery(destination)">>]
                          /\ UNCHANGED <<resp, conn>>
                  [] out \in {"erro", "http"} ->
                       \* data.get("erro"), or r.status_code != 200
                       Raise(p, "ValueError", "viacep_" \o out)
                  [] out = "timeout" ->
                       Raise(p, "RequestException", "viacep_timeout")
    /\ UNCHANGED <<store, seq, req, deleted, nreq, nposts>>

\* geocode_osm, first attempt: _search(query)
Geocode(p) ==
    /\ pc[p] \in {"geocode_origem", "geocode_destino"}
    /\ LET origem == pc[p] = "geocode_origem"
           query == IF origem THEN loc[p].q_origem ELSE loc[p].q_destino
       IN  /\ Call(p, "nominatim", query)
           /\ \E out \in NominatimOutcomes :
                CASE out = "match" ->
                       LET coords == NominatimData(query) IN
                          /\ loc' = IF origem THEN [loc EXCEPT ![p].c1 = coords]
                                    ELSE [loc EXCEPT ![p].c2 = coords]
                          /\ pc' = [pc EXCEPT ![p] =
                                       IF origem THEN "geocode_destino" ELSE "secundaria"]
                          /\ Stage(p, IF origem THEN "Geocode(origin)"
                                      ELSE "Geocode(destination)")
                          /\ UNCHANGED <<resp, conn>>
                  [] out = "nomatch" ->
                       IF TemFallback(query)
                       THEN /\ pc' = [pc EXCEPT ![p] =
                                         IF origem THEN "fallback_origem"
                                         ELSE "fallback_destino"]
                            /\ UNCHANGED <<loc, run, resp, conn>>
                       ELSE Raise(p, "ValueError", "nominatim_nomatch")
                  [] out \in {"http", "timeout"} ->
                       \* raise_for_status, or requests.get timing out
                       Raise(p, "RequestException", "nominatim_" \o out)
    /\ UNCHANGED <<store, seq, req, deleted, nreq, nposts>>

\* geocode_osm, second attempt: _search(cidade_uf)
GeocodeFallback(p) ==
    /\ pc[p] \in {"fallback_origem", "fallback_destino"}
    /\ LET origem == pc[p] = "fallback_origem"
           query == IF origem THEN loc[p].q_origem ELSE loc[p].q_destino
       IN  /\ Call(p, "nominatim", CidadeUf(query))
           /\ \E out \in NominatimOutcomes :
                CASE out = "match" ->
                       LET coords == NominatimData(CidadeUf(query)) IN
                          /\ loc' = IF origem THEN [loc EXCEPT ![p].c1 = coords]
                                    ELSE [loc EXCEPT ![p].c2 = coords]
                          /\ pc' = [pc EXCEPT ![p] =
                                       IF origem THEN "geocode_destino" ELSE "secundaria"]
                          /\ Stage(p, IF origem THEN "Geocode(origin)"
                                      ELSE "Geocode(destination)")
                          /\ UNCHANGED <<resp, conn>>
                  [] out = "nomatch" ->
                       Raise(p, "ValueError", "nominatim_nomatch")
                  [] out \in {"http", "timeout"} ->
                       Raise(p, "RequestException", "nominatim_" \o out)
    /\ UNCHANGED <<store, seq, req, deleted, nreq, nposts>>

\* Mutant: the answer of the secondary API is neither checked nor read.
SecundariaSemStatus(p) ==
    /\ pc[p] = "secundaria"
    /\ Call(p, "secundaria", <<loc[p].c1, loc[p].c2>>)
    /\ pc' = [pc EXCEPT ![p] = "persist"]
    /\ UNCHANGED <<store, seq, req, loc, conn, resp, run, deleted, nreq, nposts>>

\* requests.post(.../calcular-distancia) and the reading of its answer
Secundaria(p) ==
    /\ pc[p] = "secundaria"
    /\ Call(p, "secundaria", <<loc[p].c1, loc[p].c2>>)
    /\ \E out \in SecundariaOutcomes :
         CASE out = "ok" ->
                LET resultado == calcular_distancia(loc[p].c1, loc[p].c2)
                IN  /\ loc' = [loc EXCEPT ![p].distancia_km = resultado.distancia_km]
                    /\ pc' = [pc EXCEPT ![p] = "persist"]
                    /\ Stage(p, "ComputeDistance")
                    /\ UNCHANGED <<resp, conn>>
           [] out = "http" ->
                \* r.status_code != 200
                /\ Reply(p, conn[p], 502, Erro)
                /\ run' = [run EXCEPT ![p].fault = "secundaria_http"]
           [] out = "timeout" ->
                Raise(p, "RequestException", "secundaria_timeout")
           [] out = "notjson" ->
                \* r.json() raises JSONDecodeError
                Raise(p, "ValueError", "secundaria_notjson")
           [] out = "nokey" ->
                \* float(None)
                Raise(p, "TypeError", "secundaria_nokey")
    /\ UNCHANGED <<store, seq, req, deleted, nreq, nposts>>

\* datetime.utcnow() to the second: the clock reads the POST runs started.
utcnow == nposts

NewRow(id, l, criado_em) ==
    [id |-> id, cep_origem |-> l.cep_origem, cep_destino |-> l.cep_destino,
     lat1 |-> l.c1[1], lon1 |-> l.c1[2], lat2 |-> l.c2[1], lon2 |-> l.c2[2],
     distancia_km |-> l.distancia_km, criado_em |-> criado_em,
     observacoes |-> l.observacoes]

\* INSERT INTO consultas ... and db.commit()
Persist(p) ==
    /\ pc[p] = "persist"
    /\ LET criado_em == utcnow
             db == get_db(conn[p])
             id == NextId(DOMAIN store, seq)
         IN  /\ store' = [i \in DOMAIN store \cup {id} |->
                            IF i = id THEN NewRow(id, loc[p], criado_em)
                            ELSE store[i]]
             /\ seq' = id
             /\ conn' = [conn EXCEPT ![p] = [db EXCEPT !.lastrowid = id]]
             /\ loc' = [loc EXCEPT ![p].criado_em = criado_em]
             /\ pc' = [pc EXCEPT ![p] = "respond"]
             /\ run' = [run EXCEPT ![p].stages = Append(@, "Persist"),
                                   ![p].ins = @ \cup {id}]
             /\ UNCHANGED resp
    /\ UNCHANGED <<req, calls, deleted, nreq, nposts>>

\* novo_id = cur.lastrowid and the 200 response
Respond(p) ==
    /\ pc[p] = "respond"
    /\ LET l == loc[p]
           novo_id == LastRowId(conn[p], seq)
       IN  Reply(p, conn[p], 200,
                 [id |-> novo_id,
                  cep_origem |-> l.cep_origem, cep_destino |-> l.cep_destino,
                  endereco_origem |-> l.end_origem,
                  endereco_destino |-> l.end_destino,
                  origem |-> [lat |-> l.c1[1], lon |-> l.c1[2]],
                  destino |-> [lat |-> l.c2[1], lon |-> l.c2[2]],
                  distancia_km |-> Round3(l.distancia_km),
                  criado_em |-> l.criado_em,
                  observacoes |-> l.observacoes])
    /\ Stage(p, "Respond")
    /\ UNCHANGED <<store, seq, req, calls, deleted, nreq, nposts>>

----------------------------------------------------------------------------
(* /consultas *)

\* A request on /consultas starts; it is late for an id already deleted, and
\* its id is absent when it designates no record as the statement runs.
Begin(p, kind, id, limit, offset) ==
    /\ pc[p] = "idle"
    /\ nreq < MaxReqs
    /\ nreq' = nreq + 1
    /\ req' = [req EXCEPT ![p] =
                 [kind |-> kind, id |-> id, limit |-> limit, offset |-> offset]]
    /\ run' = [run EXCEPT ![p] =
                 [NoRun EXCEPT !.late = id \in deleted,
                               !.absent = kind # "LIST" /\ id \notin DOMAIN store]]
    /\ calls' = [calls EXCEPT ![p] = <<>>]

\* SELECT ... FROM consultas ORDER BY id DESC LIMIT ? OFFSET ?
SelectPage(st, s, limit, offset) ==
    LET ids == OrderByIdDesc(DOMAIN st, 1, s)
        page == LimitOffset(ids, limit, offset)
    IN  [i \in 1..Len(page) |-> st[page[i]]]

\* GET /consultas
listar_consultas(p, limit, offset) ==
    /\ Begin(p, "LIST", 0, limit, offset)
    /\ LET lim == ClampLimit(limit)
           off == ClampOffset(offset)
           db == get_db(NoConn)
           dados == SelectPage(store, seq, lim, off)
       IN  Reply(p, db, 200, [total |-> Len(dados), items |-> dados])
    /\ UNCHANGED <<store, seq, deleted, nposts>>

\* GET /consultas/<id>
obter_consulta(p, consulta_id) ==
    /\ Begin(p, "GET", consulta_id, 0, 0)
    /\ LET db == get_db(NoConn)
       IN  IF consulta_id \in DOMAIN store
           THEN Reply(p, db, 200, store[consulta_id])
           ELSE Reply(p, db, 404, Erro)
    /\ UNCHANGED <<store, seq, deleted, nposts>>

\* Mutant: SET observacoes = COALESCE(?, observacoes)
UpdateSeNaoNulo(st, id, observacoes) ==
    [i \in DOMAIN st |->
        IF i = id /\ observacoes # [tag |-> "null"]
        THEN [st[i] EXCEPT !.observacoes = observacoes] ELSE st[i]]

\* Mutant: INSERT OR REPLACE in place of the UPDATE.
UpdateOuInsert(st, id, observacoes) ==
    [i \in DOMAIN st \cup {id} |->
        IF i \in DOMAIN st THEN [st[i] EXCEPT !.observacoes = observacoes]
        ELSE [id |-> id, cep_origem |-> <<>>, cep_destino |-> <<>>,
              lat1 |-> 0, lon1 |-> 0, lat2 |-> 0, lon2 |-> 0,
              distancia_km |-> 0, criado_em |-> 0, observacoes |-> observacoes]]

\* Mutant: the UPDATE without its WHERE clause.
UpdateSemWhere(st, id, observacoes) ==
    [i \in DOMAIN st |-> [st[i] EXCEPT !.observacoes = observacoes]]

\* UPDATE consultas SET observacoes = ? WHERE id = ?
UpdateObservacoes(st, id, observacoes) ==
    [i \in DOMAIN st |->
        IF i = id THEN [st[i] EXCEPT !.observacoes = observacoes] ELSE st[i]]

\* DELETE FROM consultas WHERE id = ?
DeleteRow(st, id) == [i \in DOMAIN st \ {id} |-> st[i]]

\* PUT /consultas/<id>: the UPDATE and its commit
atualizar_consulta(p, consulta_id, json) ==
    /\ Begin(p, "PUT", consulta_id, 0, 0)
    /\ LET body == IF json.t = "none" THEN EmptyDict ELSE json.d
           observacoes == Get(body, "observacoes", JNull)
           db == get_db(NoConn)
           rowcount == IF consulta_id \in DOMAIN store THEN 1 ELSE 0
       IN  /\ store' = UpdateObservacoes(store, consulta_id, observacoes)
           /\ IF rowcount = 0
              THEN Reply(p, db, 404, Erro)
              ELSE /\ pc' = [pc EXCEPT ![p] = "put_select"]
                   /\ conn' = [conn EXCEPT ![p] = db]
                   /\ resp' = [resp EXCEPT ![p] = NoResp]
                   /\ UNCHANGED loc
    /\ UNCHANGED <<seq, deleted, nposts>>

\* PUT /consultas/<id>: the SELECT that reads the row back
AtualizarSelect(p) ==
    /\ pc[p] = "put_select"
    /\ IF req[p].id \in DOMAIN store
       THEN Reply(p, conn[p], 200, store[req[p].id])
       ELSE \* fetchone() is None and dict(None) raises; nothing catches it
            Reply(p, conn[p], 500, Erro)
    /\ UNCHANGED <<store, seq, req, calls, run, deleted, nreq, nposts>>

\* DELETE /consultas/<id>
excluir_consulta(p, consulta_id) ==
    /\ Begin(p, "DELETE", consulta_id, 0, 0)
    /\ LET db == get_db(NoConn)
           rowcount == IF consulta_id \in DOMAIN store THEN 1 ELSE 0
       IN  /\ store' = DeleteRow(store, consulta_id)
           /\ IF rowcount = 0
              THEN Reply(p, db, 404, Erro) /\ UNCHANGED deleted
              ELSE /\ Reply(p, db, 200, [status |-> "excluida", id |-> consulta_id])
                   /\ deleted' = deleted \cup {consulta_id}
    /\ UNCHANGED <<seq, nposts>>

\* The request of a worker has ended with a response.
Done(p) == pc[p] = "idle" /\ resp[p].status # 0

Next ==
    \E p \in Procs :
        \/ \E json \in PostBodies : PostValidar(p, json)
        \/ ViaCep(p)
        \/ Geocode(p)
        \/ GeocodeFallback(p)
        \/ Secundaria(p)
        \/ Persist(p)
        \/ Respond(p)
        \/ \E limit \in Limits, offset \in Offsets : listar_consultas(p, limit, offset)
        \/ \E id \in Ids : obter_consulta(p, id)
        \/ \E id \in Ids, json \in PutBodies : atualizar_consulta(p, id, json)
        \/ AtualizarSelect(p)
        \/ \E id \in Ids : excluir_consulta(p, id)

Spec == Init /\ [][Next]_vars

----------------------------------------------------------------------------
(* The listing on large stores *)

\* A row of a store prepared for the listing.
ListRow(i) ==
    [id |-> i, cep_origem |-> <<"1", "0">>, cep_destino |-> <<"2">>,
     lat1 |-> 0, lon1 |-> 90, lat2 |-> 0, lon2 |-> 180,
     distancia_km |-> 100075430, criado_em |-> 1, observacoes |-> JNull]

\* Store sizes: a few rows, and around the cap of LIMIT.
ListSizes ==
    (0..(ListSlack + 1)) \cup ((MaxLimit - ListSlack)..(MaxLimit + ListSlack + 1))

\* Rows deleted from a prepared store: none, the oldest, or the one below the newest.
ListHoles(n) == {h \in {0, 1, n - 1} : h < n}

ListLimits == {0 - 1, 0, 1, 2, MaxLimit - 1, MaxLimit, MaxLimit + 1, 9999}
ListOffsets == {0 - 1, 0, 1, MaxLimit}

\* The store after n inserts and at most one delete; one request is left.
InitList ==
    /\ \E n \in ListSizes : \E h \in ListHoles(n) :
         /\ store = [i \in (1..n) \ {h} |-> ListRow(i)]
         /\ seq = n
         /\ deleted = (1..n) \cap {h}
    /\ pc = [p \in Procs |-> "idle"]
    /\ req = [p \in Procs |-> NoReq]
    /\ loc = [p \in Procs |-> NoLoc]
    /\ conn = [p \in Procs |-> NoConn]
    /\ resp = [p \in Procs |-> NoResp]
    /\ calls = [p \in Procs |-> <<>>]
    /\ run = [p \in Procs |-> NoRun]
    /\ nreq = MaxReqs - 1
    /\ nposts = MaxPosts

NextList ==
    \E p \in Procs :
        \E limit \in ListLimits, offset \in ListOffsets : listar_consultas(p, limit, offset)

SpecList == InitList /\ [][NextList]_vars

----------------------------------------------------------------------------
(* The geocoder on arbitrary address text *)

RECURSIVE TextsOf(_)
TextsOf(n) ==
    IF n = 0 THEN { <<>> }
    ELSE LET shorter == TextsOf(n - 1)
         IN  shorter \cup { Append(t, ch) : t \in shorter, ch \in {"a", COMMA, SP} }

Texts == TextsOf(MaxText)

GeoProc == CHOOSE p \in Procs : TRUE

\* A POST run that has both addresses from ViaCEP and is about to geocode.
InitGeo ==
    /\ store = [i \in {} |-> 0]
    /\ seq = 0
    /\ deleted = {}
    /\ pc = [p \in Procs |-> IF p = GeoProc THEN "geocode_origem" ELSE "idle"]
    /\ req = [p \in Procs |->
                IF p = GeoProc THEN [NoReq EXCEPT !.kind = "POST"] ELSE NoReq]
    /\ \E a, b \in Texts :
         LET end_origem == [logradouro |-> JStr(a), uf |-> JStr(b)]
             end_destino == ViaCepData(CepNaUrl(CepA))
         IN  loc = [p \in Procs |->
                      IF p = GeoProc
                      THEN [NoLoc EXCEPT
                              !.cep_origem = CepNaUrl(CepA),
                              !.cep_destino = CepB,
                              !.end_origem = end_origem,
                              !.end_destino = end_destino,
                              !.q_origem = endereco_para_query(end_origem),
                              !.q_destino = endereco_para_query(end_destino)]
                      ELSE NoLoc]
    /\ conn = [p \in Procs |-> NoConn]
    /\ resp = [p \in Procs |-> NoResp]
    /\ calls = [p \in Procs |->
                  IF p = GeoProc
                  THEN << [svc |-> "viacep", arg |-> CepNaUrl(CepA)],
                          [svc |-> "viacep", arg |-> CepB] >>
                  ELSE <<>>]
    /\ run = [p \in Procs |->
                IF p = GeoProc
                THEN [NoRun EXCEPT !.stages =
                        <<"Validate", "Resolve(origin)", "Resolve(destination)",
                          "BuildQuery(origin)", "BuildQuery(destination)">>]
                ELSE NoRun]
    /\ nreq = 1
    /\ nposts = 1

NextGeo ==
    \E p \in Procs :
        \/ Geocode(p)
        \/ GeocodeFallback(p)
        \/ Secundaria(p)
        \/ Persist(p)
        \/ Respond(p)

SpecGeo == InitGeo /\ [][NextGeo]_vars

----------------------------------------------------------------------------
(* The query builder on arbitrary addresses *)

AddressKeys == {"logradouro", "bairro", "localidade", "uf"}

AddressValues == {JNull} \cup {JStr(t) : t \in TextsOf(MaxText - 1)}

\* What ViaCEP may have answered: each component a text, null or not there.
Addresses == UNION {[D -> AddressValues] : D \in SUBSET AddressKeys}

\* A POST run that has the origin address and is about to resolve the
\* destination and to build the two queries.
InitQuery ==
    /\ store = [i \in {} |-> 0]
    /\ seq = 0
    /\ deleted = {}
    /\ pc = [p \in Procs |-> IF p = GeoProc THEN "viacep_destino" ELSE "idle"]
    /\ req = [p \in Procs |->
                IF p = GeoProc THEN [NoReq EXCEPT !.kind = "POST"] ELSE NoReq]
    /\ \E end_origem \in Addresses :
         loc = [p \in Procs |->
                  IF p = GeoProc
                  THEN [NoLoc EXCEPT !.cep_origem = CepB,
                                     !.cep_destino = CepA,
                                     !.end_origem = end_origem]
                  ELSE NoLoc]
    /\ conn = [p \in Procs |-> NoConn]
    /\ resp = [p \in Procs |-> NoResp]
    /\ calls = [p \in Procs |->
                  IF p = GeoProc THEN << [svc |-> "viacep", arg |-> CepB] >>
                  ELSE <<>>]
    /\ run = [p \in Procs |->
                IF p = GeoProc
                THEN [NoRun EXCEPT !.stages = <<"Validate", "Resolve(origin)">>]
                ELSE NoRun]
    /\ nreq = 1
    /\ nposts = 1

NextQuery == \E p \in Procs : ViaCep(p)

SpecQuery == InitQuery /\ [][NextQuery]_vars

----------------------------------------------------------------------------
(* The secondary API: POST /calcular-distancia *)

\* data.get(k) or {}
BlocoDe(data, k) ==
    LET v == Get(data, k, JNull) IN IF Falsy(v) THEN JObj(EmptyDict) ELSE v

\* The check of one block: a dict that holds lat and lon.
BlocoValido(bloco) ==
    bloco.tag = "obj" /\ "lat" \in DOMAIN bloco.d /\ "lon" \in DOMAIN bloco.d

\* The answer of POST /calcular-distancia to a body: status and JSON.
RespostaCalcular(json) ==
    LET data == IF json.t = "none" THEN EmptyDict ELSE json.d
        origem == BlocoDe(data, "origem")
        destino == BlocoDe(data, "destino")
    IN  IF ~BlocoValido(origem) \/ ~BlocoValido(destino)
        THEN [status |-> 400, body |-> [erro |-> "erro"]]
        ELSE LET lat1 == PyFloat(origem.d["lat"])
                 lon1 == PyFloat(origem.d["lon"])
                 lat2 == PyFloat(destino.d["lat"])
                 lon2 == PyFloat(destino.d["lon"])
             IN  IF lat1.ok /\ lon1.ok /\ lat2.ok /\ lon2.ok
                 THEN [status |-> 200,
                       body |-> calcular_distancia(<<lat1.v, lon1.v>>,
                                                   <<lat2.v, lon2.v>>)]
                 ELSE \* except (ValueError, TypeError)
                      [status |-> 400, body |-> [erro |-> "erro"]]

\* What a caller may send for lat or lon: numbers, texts that float() reads
\* and texts it does not, null, a boolean, a list.
CoordValues ==
    { JNum(0), JNum(90), JNum(0 - 90),
      JStr(<<"9", "0">>), JStr(<<SP, "0">>), JStr(<<"x">>), JStr(<<>>),
      JNull, JBool(FALSE), JList }

\* What a caller may send for origem or destino: an object with lat, lon,
\* both or none, null, or a text.
Blocos ==
    {JNull, JStr(<<"x">>)}
        \cup {JObj(d) : d \in UNION {[D -> CoordValues] : D \in SUBSET {"lat", "lon"}}}

CalcBodies ==
    {NoJson} \cup {DictJson(d) : d \in UNION {[D -> Blocos] :
                                               D \in SUBSET {"origem", "destino"}}}

\* The handler of the secondary API; it keeps no store.
CalcularDistancia(p, json) ==
    /\ pc[p] = "idle"
    /\ nreq < MaxReqs
    /\ nreq' = nreq + 1
    /\ req' = [req EXCEPT ![p] =
                 [kind |-> "CALC", id |-> 0, limit |-> 0, offset |-> 0,
                  json |-> json]]
    /\ run' = [run EXCEPT ![p] = NoRun]
    /\ calls' = [calls EXCEPT ![p] = <<>>]
    /\ LET r == RespostaCalcular(json)
       IN  Reply(p, NoConn, r.status, r.body)
    /\ UNCHANGED <<store, seq, deleted, nposts>>

\* One request to the secondary API is left.
InitSec ==
    /\ store = [i \in {} |-> 0]
    /\ seq = 0
    /\ deleted = {}
    /\ pc = [p \in Procs |-> "idle"]
    /\ req = [p \in Procs |-> NoReq]
    /\ loc = [p \in Procs |-> NoLoc]
    /\ conn = [p \in Procs |-> NoConn]
    /\ resp = [p \in Procs |-> NoResp]
    /\ calls = [p \in Procs |-> <<>>]
    /\ run = [p \in Procs |-> NoRun]
    /\ nreq = MaxReqs - 1
    /\ nposts = 0

NextSec ==
    \E p \in Procs :
        nreq < MaxReqs /\ \E json \in CalcBodies : CalcularDistancia(p, json)

SpecSec == InitSec /\ [][NextSec]_vars

----------------------------------------------------------------------------
(* Properties of the POST pipeline and of the store *)

PostDone(p) == Done(p) /\ req[p].kind = "POST"

\* The stages a run has behind it when it reaches the INSERT.
StagesBeforePersist ==
    <<"Validate", "Resolve(origin)", "Resolve(destination)",
      "BuildQuery(origin)", "BuildQuery(destination)",
      "Geocode(origin)", "Geocode(destination)", "ComputeDistance">>

\* C1: a POST run in which a stage fails inserts nothing, and a record enters
\* the store only by the INSERT of a run that has every earlier stage behind
\* it, with both coordinate pairs and the distance known; that run ends 200.
C1_NoPartialRecord ==
    [][ /\ \A p \in Procs :
             (pc'[p] = "idle" /\ req'[p].kind = "POST" /\ resp'[p].status # 200)
                => run'[p].ins = {}
        /\ \A id \in DOMAIN store' \ DOMAIN store :
             \E p \in Procs :
                /\ pc[p] = "persist"
                /\ pc'[p] = "respond"
                /\ run[p].stages = StagesBeforePersist
                /\ run[p].fault = ""
                /\ run'[p].ins = {id}
                /\ Len(loc[p].c1) = 2
                /\ Len(loc[p].c2) = 2
                /\ store'[id].distancia_km = loc[p].distancia_km
        /\ \A id \in DOMAIN store \cap DOMAIN store' :
             \A p \in Procs : id \in run'[p].ins => id \in run[p].ins
      ]_vars

\* C1 witness: one run failed at the last external call and inserted nothing,
\* while the store holds the record of a run that succeeded.
C1_Witness ==
    \E p, q \in Procs :
        /\ PostDone(p)
        /\ run[p].fault = "secundaria_timeout"
        /\ run[p].ins = {}
        /\ PostDone(q)
        /\ resp[q].status = 200
        /\ DOMAIN store = run[q].ins

\* C2: a POST whose origin or destination postal code is absent, null or
\* blank ends 400 with no external call issued and nothing inserted.
C2_MissingInput400 ==
    \A p \in Procs :
        (req[p].kind = "POST" /\ run[p].missing)
            => /\ pc[p] = "idle"
               /\ resp[p].status = 400
               /\ calls[p] = <<>>
               /\ run[p].ins = {}

\* C3: a POST run in which ViaCEP answered with a status other than 200, or
\* did not answer in time, ends 502 with nothing inserted.
C3_ViaCepUnavailable502 ==
    \A p \in Procs :
        (PostDone(p) /\ run[p].fault \in {"viacep_http", "viacep_timeout"})
            => (resp[p].status = 502 /\ run[p].ins = {})

\* C4: a POST run in which the secondary API answered with a status other
\* than 200, with a body that is not JSON, or with JSON that has no numeric
\* distancia_km, ends 502 with nothing inserted.
C4_SecundariaUnavailable502 ==
    \A p \in Procs :
        (PostDone(p) /\ run[p].fault \in
            {"secundaria_http", "secundaria_notjson", "secundaria_nokey"})
            => (resp[p].status = 502 /\ run[p].ins = {})

\* The fields of a row other than observacoes
Fixed(row) ==
    <<row.id, row.cep_origem, row.cep_destino, row.lat1, row.lon1,
      row.lat2, row.lon2, row.distancia_km, row.criado_em>>

\* C6: a record keeps the id, postal codes, coordinates, distance and
\* timestamp written by its INSERT; an existing record changes only in the
\* UPDATE step of a PUT on its own id, and only in observacoes.
C6_OnlyNotesChange ==
    [][ /\ \A id \in DOMAIN store \cap DOMAIN store' :
             /\ Fixed(store'[id]) = Fixed(store[id])
             /\ store'[id] # store[id]
                  => \E p \in Procs :
                        /\ pc[p] = "idle"
                        /\ pc'[p] = "put_select"
                        /\ req'[p].kind = "PUT"
                        /\ req'[p].id = id
        /\ \A id \in DOMAIN store' \ DOMAIN store :
             \E p \in Procs :
                /\ pc[p] = "persist"
                /\ Fixed(store'[id]) =
                     <<id, loc[p].cep_origem, loc[p].cep_destino,
                       loc[p].c1[1], loc[p].c1[2], loc[p].c2[1], loc[p].c2[2],
                       loc[p].distancia_km, utcnow>>
      ]_vars

\* C6 witness: a PUT answered 200 for one of two records and wrote its notes.
C6_Witness ==
    \E p \in Procs :
        /\ Done(p)
        /\ req[p].kind = "PUT"
        /\ resp[p].status = 200
        /\ Cardinality(DOMAIN store) = 2
        /\ store[req[p].id].observacoes = JStr(<<"y">>)

C8_IdsUniqueIncreasing ==
    [][ /\ \A id \in DOMAIN store' \ DOMAIN store :
             /\ \A j \in DOMAIN store \cup deleted : id > j
             /\ store'[id].id = id
        /\ \A p \in Procs :
             (pc'[p] = "idle" /\ req'[p].kind = "POST" /\ resp'[p].status = 200)
                => run'[p].ins = {resp'[p].body.id}
        /\ \A p, q \in Procs :
             (p # q /\ run'[p].ins # {} /\ run'[q].ins # {})
                => run'[p].ins \cap run'[q].ins = {}
      ]_vars

\* C8 witness: two POST runs interleaved; the one that inserted second has
\* answered with id 2 while the first has not answered yet.
C8_Witness ==
    \E p, q \in Procs :
        /\ pc[p] = "respond"
        /\ run[p].ins = {1}
        /\ PostDone(q)
        /\ resp[q].status = 200
        /\ resp[q].body.id = 2

\* C10: the record a GET returns for the id of a POST response carries the
\* coordinates, the distance and the timestamp of that response.
C10_GetEqualsPost ==
    \A p, q \in Procs :
        ( /\ PostDone(p) /\ resp[p].status = 200
          /\ Done(q) /\ req[q].kind = "GET" /\ resp[q].status = 200
          /\ req[q].id = resp[p].body.id )
        => /\ resp[q].body.lat1 = resp[p].body.origem.lat
           /\ resp[q].body.lon1 = resp[p].body.origem.lon
           /\ resp[q].body.lat2 = resp[p].body.destino.lat
           /\ resp[q].body.lon2 = resp[p].body.destino.lon
           /\ resp[q].body.distancia_km = resp[p].body.distancia_km
           /\ resp[q].body.criado_em = resp[p].body.criado_em

\* C10 witness: a GET answered 200 for the id of a POST response whose
\* distance is not zero.
C10_Witness ==
    \E p, q \in Procs :
        /\ PostDone(p) /\ resp[p].status = 200
        /\ Done(q) /\ req[q].kind = "GET" /\ resp[q].status = 200
        /\ req[q].id = resp[p].body.id
        /\ resp[p].body.distancia_km > 0

IsPrefix(s, t) == Len(s) <= Len(t) /\ s = SubSeq(t, 1, Len(s))

AllStages == StagesBeforePersist \o <<"Persist", "Respond">>

\* The number of stages a run has behind it where it stands.
StagesAt(at) ==
    CASE at = "viacep_origem" -> 1
      [] at = "viacep_destino" -> 2
      [] at \in {"geocode_origem", "fallback_origem"} -> 5
      [] at \in {"geocode_destino", "fallback_destino"} -> 6
      [] at = "secundaria" -> 7
      [] at = "persist" -> 8
      [] at = "respond" -> 9

\* The place of a service in the pipeline.
SvcRank(svc) ==
    CASE svc = "viacep" -> 1 [] svc = "nominatim" -> 2 [] svc = "secundaria" -> 3

\* The service whose call made the run fail.
FaultSvc(fault) ==
    IF fault \in {"viacep_erro", "viacep_http", "viacep_timeout"} THEN "viacep"
    ELSE IF fault \in {"nominatim_nomatch", "nominatim_http", "nominatim_timeout"}
    THEN "nominatim"
    ELSE "secundaria"

\* The run of worker p, as far as it got, follows the pipeline.
InOrder(p) ==
    LET st == run[p].stages
        cs == calls[p]
        n(svc) == Cardinality({i \in 1..Len(cs) : cs[i].svc = svc})
    IN  /\ IsPrefix(st, AllStages)
        /\ pc[p] # "idle" => (Len(st) = StagesAt(pc[p]) /\ run[p].fault = "")
        /\ pc[p] = "idle" =>
              /\ resp[p].status = 200 <=> st = AllStages
              /\ resp[p].status # 200 => Len(st) <= 7
              /\ resp[p].status # 200 => (run[p].fault # "" \/ st = <<>>)
        /\ \A i, j \in 1..Len(cs) : i < j => SvcRank(cs[i].svc) <= SvcRank(cs[j].svc)
        /\ n("viacep") <= 2 /\ n("nominatim") <= 4 /\ n("secundaria") <= 1
        /\ n("viacep") >= 1 => Len(st) >= 1
        /\ n("viacep") = 2 => Len(st) >= 2
        /\ n("nominatim") >= 1 => Len(st) >= 5
        /\ n("secundaria") = 1 => Len(st) >= 7
        /\ Len(st) >= 2 => n("viacep") >= 1
        /\ Len(st) >= 3 => n("viacep") = 2
        /\ Len(st) >= 6 => n("nominatim") >= 1
        /\ Len(st) >= 7 => n("nominatim") >= 2
        /\ Len(st) >= 8 => n("secundaria") = 1
        /\ run[p].fault # "" =>
              /\ pc[p] = "idle"
              /\ resp[p].status # 200
              /\ cs # <<>>
              /\ cs[Len(cs)].svc = FaultSvc(run[p].fault)

\* C15: a POST run goes through Validate, Resolve(origin),
\* Resolve(destination), BuildQuery(origin), BuildQuery(destination),
\* Geocode(origin), Geocode(destination), ComputeDistance, Persist, Respond in
\* that order, each stage once and only with the earlier ones behind it; the
\* external calls follow the same order, and a call that fails is the last
\* call of its run.
C15_StageOrder == \A p \in Procs : req[p].kind = "POST" => InOrder(p)

\* C15 witness: one run went through all ten stages with six external calls,
\* and one stopped at the geocoding of the destination, its last call.
C15_Witness ==
    \E p, q \in Procs :
        /\ PostDone(p)
        /\ resp[p].status = 200
        /\ run[p].stages = AllStages
        /\ Len(calls[p]) = 6
        /\ PostDone(q)
        /\ run[q].fault = "nominatim_timeout"
        /\ Len(run[q].stages) = 6
        /\ Len(calls[q]) = 4

\* C17: a PUT /consultas/<id> ends 200 with the updated record or ends 404,
\* whatever a concurrent DELETE of the same id does between its UPDATE and
\* its SELECT.
C17_PutAtomic ==
    \A p \in Procs :
        (Done(p) /\ req[p].kind = "PUT")
            => \/ resp[p].status = 404
               \/ /\ resp[p].status = 200
                  /\ resp[p].body.id = req[p].id

\* C18: a request that has ended holds no open connection, whatever its
\* status, and no request opens more than one connection.
C18_HandleReleased ==
    \A p \in Procs :
        /\ pc[p] = "idle" => ~conn[p].open
        /\ conn[p].opens <= 1
        /\ conn[p].open => conn[p].opens = 1

\* C18 witness: a PUT that ended 500 and the DELETE that ended 200 had each
\* opened one connection and hold none.
C18_Witness ==
    \E p, q \in Procs :
        /\ Done(p) /\ req[p].kind = "PUT" /\ resp[p].status = 500
        /\ conn[p].opens = 1 /\ ~conn[p].open
        /\ Done(q) /\ req[q].kind = "DELETE" /\ resp[q].status = 200
        /\ conn[q].opens = 1 /\ ~conn[q].open

\* The notes a PUT body carries: the value of its observacoes key, or null.
NotesOf(json) ==
    IF json.t = "dict" /\ "observacoes" \in DOMAIN json.d
    THEN json.d["observacoes"] ELSE JNull

OnlyActs(p) ==
    \A q \in Procs \ {p} :
        /\ pc'[q] = pc[q]
        /\ req'[q] = req[q]
        /\ loc'[q] = loc[q]
        /\ conn'[q] = conn[q]
        /\ resp'[q] = resp[q]
        /\ calls'[q] = calls[q]
        /\ run'[q] = run[q]

----------------------------------------------------------------------------
(* Properties of the geocoder *)

SetMax(S) == CHOOSE m \in S : \A i \in S : i <= m
SetMin(S) == CHOOSE m \in S : \A i \in S : m <= i

CommaPos(q) == {i \in 1..Len(q) : q[i] = COMMA}

\* s without its leading and trailing blanks, by positions
Trimmed(s) ==
    LET ns == {i \in 1..Len(s) : s[i] # SP}
    IN  IF ns = {} THEN <<>> ELSE SubSeq(s, SetMin(ns), SetMax(ns))

\* For a query with at least two commas: the text after the third comma from
\* the end, its three pieces trimmed and put together with ", ".
LastThreeRejoined(q) ==
    LET b == SetMax(CommaPos(q))
        a == SetMax(CommaPos(q) \ {b})
        before == CommaPos(q) \ {a, b}
        c == IF before = {} THEN 0 ELSE SetMax(before)
    IN  Trimmed(SubSeq(q, c + 1, a - 1)) \o <<COMMA, SP>>
        \o Trimmed(SubSeq(q, a + 1, b - 1)) \o <<COMMA, SP>>
        \o Trimmed(SubSeq(q, b + 1, Len(q)))

QueryAt(p) ==
    IF pc[p] \in {"geocode_origem", "fallback_origem"}
    THEN loc[p].q_origem ELSE loc[p].q_destino

\* C5: when the first lookup of a query with at least 3 comma-separated
\* segments finds nothing, geocode_osm goes on to one second lookup, whose
\* query is the last 3 trimmed segments joined with ", "; when that finds
\* nothing either the run ends 400; a geocode that returns has set a pair.
C5_GeocodeFallback ==
    [][ \A p \in Procs :
          /\ (pc[p] \in {"geocode_origem", "geocode_destino"} /\ pc'[p] # pc[p])
               => /\ calls'[p] =
                       Append(calls[p], [svc |-> "nominatim", arg |-> QueryAt(p)])
                  /\ Cardinality(CommaPos(QueryAt(p))) >= 2
                       => run'[p].fault # "nominatim_nomatch"
          /\ (pc[p] \in {"fallback_origem", "fallback_destino"} /\ pc'[p] # pc[p])
               => /\ calls'[p] =
                       Append(calls[p], [svc |-> "nominatim",
                                         arg |-> LastThreeRejoined(QueryAt(p))])
                  /\ pc'[p] \in {"geocode_destino", "secundaria", "idle"}
                  /\ run'[p].fault = "nominatim_nomatch"
                       => (pc'[p] = "idle" /\ resp'[p].status = 400)
          /\ (pc[p] \in {"geocode_origem", "fallback_origem"}
                /\ pc'[p] = "geocode_destino")
               => Len(loc'[p].c1) = 2
          /\ (pc[p] \in {"geocode_destino", "fallback_destino"}
                /\ pc'[p] = "secundaria")
               => Len(loc'[p].c2) = 2
      ]_vars

\* C5 witness: a run ended 400 after a second lookup, made with a query that
\* differs from the full one, found nothing.
C5_Witness ==
    \E p \in Procs :
        /\ PostDone(p)
        /\ resp[p].status = 400
        /\ run[p].fault = "nominatim_nomatch"
        /\ Len(calls[p]) >= 2
        /\ calls[p][Len(calls[p])].svc = "nominatim"
        /\ calls[p][Len(calls[p]) - 1].svc = "nominatim"
        /\ calls[p][Len(calls[p])].arg # calls[p][Len(calls[p]) - 1].arg
        /\ Cardinality(CommaPos(calls[p][Len(calls[p]) - 1].arg)) > 2

\* A component as the query shows it: nothing when it is missing, null or
\* empty, and else its text followed by the delimiter.
Shown(endereco, k) ==
    IF k \notin DOMAIN endereco THEN <<>>
    ELSE IF endereco[k] = JNull \/ endereco[k] = JStr(<<>>) THEN <<>>
    ELSE endereco[k].s \o <<COMMA, SP>>

Brazil == <<"B", "r", "a", "z", "i", "l">>

\* C12: the query built for an address is its street, neighborhood, locality
\* and region code, in that order, without those that are missing, null or
\* empty, each followed by ", ", and then "Brazil"; it always ends with
\* "Brazil" and is exactly "Brazil" for an address with no component.
C12_BuildQuery ==
    \A p \in Procs :
        pc[p] = "geocode_origem" =>
            LET e == loc[p].end_origem
                q == loc[p].q_origem
            IN  /\ q = Shown(e, "logradouro") \o Shown(e, "bairro")
                        \o Shown(e, "localidade") \o Shown(e, "uf") \o Brazil
                /\ Len(q) >= 6
                /\ SubSeq(q, Len(q) - 5, Len(q)) = Brazil
                /\ (\A k \in AddressKeys : Shown(e, k) = <<>>) => q = Brazil

\* C12 witness: an address without neighborhood, with a null locality and an
\* empty street gave the query "a, Brazil".
C12_Witness ==
    \E p \in Procs :
        /\ pc[p] = "geocode_origem"
        /\ "bairro" \notin DOMAIN loc[p].end_origem
        /\ "localidade" \in DOMAIN loc[p].end_origem
        /\ loc[p].end_origem["localidade"] = JNull
        /\ "logradouro" \in DOMAIN loc[p].end_origem
        /\ loc[p].end_origem["logradouro"] = JStr(<<>>)
        /\ loc[p].q_origem = <<"a", COMMA, SP>> \o Brazil

Lookups(cs) == Cardinality({i \in 1..Len(cs) : cs[i].svc = "nominatim"})

\* C16: a call of geocode_osm makes one lookup with the full query and at
\* most one more: a match of the first lookup is returned as the pair with
\* no second lookup; with fewer than 3 comma-separated segments a lookup
\* without match is the only one and the run ends 400.
C16_AtMostTwoLookups ==
    [][ \A p \in Procs :
          /\ (pc[p] \in {"geocode_origem", "geocode_destino"} /\ pc'[p] # pc[p])
               => /\ calls'[p] =
                       Append(calls[p], [svc |-> "nominatim", arg |-> QueryAt(p)])
                  /\ pc'[p] \in
                       (IF pc[p] = "geocode_origem"
                        THEN {"fallback_origem", "geocode_destino", "idle"}
                        ELSE {"fallback_destino", "secundaria", "idle"})
                  /\ pc'[p] = "geocode_destino"
                       => loc'[p].c1 = NominatimData(QueryAt(p))
                  /\ pc'[p] = "secundaria"
                       => loc'[p].c2 = NominatimData(QueryAt(p))
                  /\ Cardinality(CommaPos(QueryAt(p))) < 2
                       => /\ pc'[p] \notin {"fallback_origem", "fallback_destino"}
                          /\ run'[p].fault = "nominatim_nomatch"
                               => (pc'[p] = "idle" /\ resp'[p].status = 400)
          /\ (pc[p] \in {"fallback_origem", "fallback_destino"} /\ pc'[p] # pc[p])
               => /\ Len(calls'[p]) = Len(calls[p]) + 1
                  /\ pc'[p] \in
                       (IF pc[p] = "fallback_origem"
                        THEN {"geocode_destino", "idle"}
                        ELSE {"secundaria", "idle"})
          /\ req'[p].kind = "POST" =>
                Lookups(calls'[p]) <=
                    (IF pc'[p] = "geocode_origem" THEN 0
                     ELSE IF pc'[p] = "fallback_origem" THEN 1
                     ELSE IF pc'[p] = "geocode_destino" THEN 2
                     ELSE IF pc'[p] = "fallback_destino" THEN 3
                     ELSE 4)
      ]_vars

\* C16 witness: a query of fewer than 3 segments found nothing and the run
\* ended 400 after that one lookup.
C16_Witness ==
    \E p \in Procs :
        /\ PostDone(p)
        /\ resp[p].status = 400
        /\ run[p].fault = "nominatim_nomatch"
        /\ Lookups(calls[p]) = 1
        /\ Cardinality(CommaPos(calls[p][Len(calls[p])].arg)) = 1

----------------------------------------------------------------------------
(* Properties of the secondary API *)

CalcDone(p) == Done(p) /\ req[p].kind = "CALC"

\* lat and lon are there and are JSON numbers in the block k of the body.
NumericBlock(json, k) ==
    /\ json.t = "dict"
    /\ k \in DOMAIN json.d
    /\ json.d[k].tag = "obj"
    /\ \A c \in {"lat", "lon"} :
          c \in DOMAIN json.d[k].d /\ json.d[k].d[c].tag = "num"

\* C13: POST /calcular-distancia answers 200 with origem, destino and
\* distancia_km when lat and lon are there and numeric in both blocks, and
\* answers 400 whenever one of them is missing or not numeric.
C13_CalcValidation ==
    \A p \in Procs :
        CalcDone(p) =>
            IF NumericBlock(req[p].json, "origem")
                 /\ NumericBlock(req[p].json, "destino")
            THEN /\ resp[p].status = 200
                 /\ DOMAIN resp[p].body = {"origem", "destino", "distancia_km"}
            ELSE resp[p].status = 400

\* C14: the distance from A to B is the distance from B to A, and the
\* distance from a point to itself is 0: the answer to (A, B) carries the
\* rounded distance of (B, A).
C14_HaversineSymmetric ==
    \A p \in Procs :
        (CalcDone(p) /\ resp[p].status = 200) =>
            LET A == resp[p].body.origem
                B == resp[p].body.destino
            IN  /\ haversine_km(A[1], A[2], B[1], B[2])
                      = haversine_km(B[1], B[2], A[1], A[2])
                /\ resp[p].body.distancia_km
                      = Round3(haversine_km(B[1], B[2], A[1], A[2]))
                /\ haversine_km(A[1], A[2], A[1], A[2]) = 0
                /\ A = B => resp[p].body.distancia_km = 0

\* C14 witness: a quarter of a great circle between a point on the equator
\* and a pole.
C14_Witness ==
    \E p \in Procs :
        /\ CalcDone(p)
        /\ resp[p].status = 200
        /\ resp[p].body.origem = <<0, 90>>
        /\ resp[p].body.destino = <<90, 0>>
        /\ resp[p].body.distancia_km = 100075430

----------------------------------------------------------------------------
(* Properties of the listing *)

\* C9: GET /consultas answers 200 with the records of the store by id
\* descending, without the first max(0, offset) and cut at
\* max(1, min(limit, 200)): limit=9999 gives at most 200 items, limit=0 gives
\* one item, and with offset 0 the record with the greatest id comes first.
C9_ListPage ==
    \A p \in Procs :
        (Done(p) /\ req[p].kind = "LIST") =>
            LET items == resp[p].body.items
                limit == req[p].limit
                offset == req[p].offset
                take == IF limit < 1 THEN 1 ELSE IF limit > 200 THEN 200 ELSE limit
                skip == IF offset < 0 THEN 0 ELSE offset
                n == Cardinality(DOMAIN store)
            IN  /\ resp[p].status = 200
                /\ resp[p].body.total = Len(items)
                /\ Len(items) = (IF n - skip < take
                                 THEN (IF n < skip THEN 0 ELSE n - skip) ELSE take)
                /\ \A i \in 1..Len(items) :
                     /\ items[i].id \in DOMAIN store
                     /\ items[i] = store[items[i].id]
                     /\ Cardinality({j \in DOMAIN store : j > items[i].id})
                          = skip + i - 1
                /\ limit = 9999 => Len(items) <= 200
                /\ (limit = 0 /\ skip = 0 /\ n > 0) => Len(items) = 1
                /\ (skip = 0 /\ n > 0)
                     => \A j \in DOMAIN store : j <= items[1].id

\* C9 witness: limit=9999 on a store of more than 200 records, one of them
\* deleted, answered with exactly 200 items.
C9_Witness ==
    \E p \in Procs :
        /\ Done(p)
        /\ req[p].kind = "LIST"
        /\ req[p].limit = 9999
        /\ req[p].offset = 0
        /\ Cardinality(DOMAIN store) > 200
        /\ deleted # {}
        /\ resp[p].body.total = 200

====
